---- MODULE Spec2Model ----
(***************************************************************************)
(* A model of the four-cc crate (src/lib.rs): the FourCC newtype over      *)
(* [u8; 4], its constructors, its conversion to and from u32, its          *)
(* ordering, its Display and Debug renderings, its FromStr parser and the  *)
(* serde adapter.                                                          *)
(*                                                                         *)
(* Representation.                                                         *)
(*   - an octet (u8) is a number in 0..255;                                *)
(*   - a FourCC is a sequence of four octets; the code's self.0[i] is      *)
(*     c[i+1] here;                                                        *)
(*   - a u32 is a record [hi, lo] of two 16-bit limbs (value hi*2^16+lo):  *)
(*     TLC's integers are 32-bit signed, so a u32 does not fit in one;     *)
(*   - a &str is a sequence of characters, each character the sequence of  *)
(*     the octets of its UTF-8 encoding; a rendered String is the sequence *)
(*     of its octets;                                                      *)
(*   - a call is a state: input (the arguments), op (the function that     *)
(*     ran), wire (the text scalar handed from Serialize to Deserialize)   *)
(*     and ret (what the call returned).                                   *)
(***************************************************************************)
EXTENDS Integers, Sequences, FiniteSets, TLC

VARIABLES input, op, wire, ret

vars == <<input, op, wire, ret>>

(***************************************************************************)
(* Bounds of the model.                                                    *)
(***************************************************************************)
\* octets, besides the one free octet, a FourCC operand is built from
NumOctets == 2
\* octets the u32 inputs are built from
NumIntOctets == 4
\* longest byte slice handed to From<&[u8]>
MaxSliceLen == 6
\* longest string, in characters, handed to FromStr
MaxStrChars == 5
\* octets the operands of a comparison are built from
NumOrdOctets == 3
\* octets the operands of a three-way comparison are built from
NumTriOctets == 4

(***************************************************************************)
(* Input alphabets.                                                        *)
(***************************************************************************)
\* 'A', 0xFF, 'a', 0x00, '\', ''', '"', '\n', '~', 0x7F, ' ', 0x80, '\t',
\* '\r', 0x1F, 'x'
OctetSamples ==
    <<65, 255, 97, 0, 92, 39, 34, 10, 126, 127, 32, 128, 9, 13, 31, 120>>

Min(x, y) == IF x <= y THEN x ELSE y

FirstOctets(k) == {OctetSamples[i] : i \in 1..Min(k, Len(OctetSamples))}

Byte == 0..255

\* the FourCCs of the crate's tests and documentation: b"ABCD", b"uuid",
\* b"moof", b"\x00uid", b"u\xFFi\0"
TestCodes ==
    { <<65, 66, 67, 68>>, <<117, 117, 105, 100>>, <<109, 111, 111, 102>>,
      <<0, 117, 105, 100>>, <<117, 255, 105, 0>> }

\* FourCCs with one octet free over all of u8 and the others sampled
Codes ==
    TestCodes \cup
    UNION {{[s EXCEPT ![i] = x] : x \in Byte,
                                  s \in [1..4 -> FirstOctets(NumOctets)]}
           : i \in 1..4}

None == [tag |-> "None"]
Ok(v) == [tag |-> "Ok", val |-> v]
Err(e) == [tag |-> "Err", val |-> e]
Panic == [tag |-> "Panic"]

(***************************************************************************)
(* u32 arithmetic on two 16-bit limbs.                                     *)
(***************************************************************************)
Pow2(k) == 2 ^ k

U32(h, l) == [hi |-> h, lo |-> l]

RECURSIVE BitAnd(_, _)
BitAnd(x, y) ==
    IF x = 0 \/ y = 0 THEN 0
    ELSE (x % 2) * (y % 2) + 2 * BitAnd(x \div 2, y \div 2)

RECURSIVE BitOr(_, _)
BitOr(x, y) ==
    IF x = 0 THEN y
    ELSE IF y = 0 THEN x
    ELSE (IF x % 2 = 1 \/ y % 2 = 1 THEN 1 ELSE 0)
         + 2 * BitOr(x \div 2, y \div 2)

\* v & m
And32(v, m) == U32(BitAnd(v.hi, m.hi), BitAnd(v.lo, m.lo))

\* v | m
Or32(v, m) == U32(BitOr(v.hi, m.hi), BitOr(v.lo, m.lo))

\* v >> k, 0 <= k < 32
Shr32(v, k) ==
    IF k >= 16 THEN U32(0, v.hi \div Pow2(k - 16))
    ELSE U32(v.hi \div Pow2(k),
             (v.hi % Pow2(k)) * Pow2(16 - k) + v.lo \div Pow2(k))

\* v << k, 0 <= k < 32: the bits shifted out of the 32 are lost
Shl32(v, k) ==
    IF k >= 16 THEN U32((v.lo % Pow2(32 - k)) * Pow2(k - 16), 0)
    ELSE U32((v.hi % Pow2(16 - k)) * Pow2(k) + v.lo \div Pow2(16 - k),
             (v.lo % Pow2(16 - k)) * Pow2(k))

\* b as u32
AsU32(b) == U32(0, b)

\* v as u8: the low eight bits
AsU8(v) == v.lo % 256

(***************************************************************************)
(* Conversions between FourCC and u32.                                     *)
(***************************************************************************)
\* a mutant of from_u32: octet 0 placed in the least significant byte
from_u32_le(self) ==
    Or32(Or32(Or32(And32(Shl32(AsU32(self[4]), 24), U32(65280, 0)),
                   And32(Shl32(AsU32(self[3]), 16), U32(255, 0))),
              And32(Shl32(AsU32(self[2]), 8), U32(0, 65280))),
         And32(AsU32(self[1]), U32(0, 255)))

\* FourCC::from_u32(self) -> u32, the body of From<FourCC> for u32
from_u32(self) ==
    Or32(Or32(Or32(And32(Shl32(AsU32(self[1]), 24), U32(65280, 0)),
                   And32(Shl32(AsU32(self[2]), 16), U32(255, 0))),
              And32(Shl32(AsU32(self[3]), 8), U32(0, 65280))),
         And32(AsU32(self[4]), U32(0, 255)))

\* a mutant of From<u32>: octet 1 taken with the shift of octet 2
FromU32_shift(val) ==
    << AsU8(And32(Shr32(val, 24), U32(0, 255))),
       AsU8(And32(Shr32(val, 8), U32(0, 255))),
       AsU8(And32(Shr32(val, 8), U32(0, 255))),
       AsU8(And32(val, U32(0, 255))) >>

\* impl From<u32> for FourCC
FromU32(val) ==
    << AsU8(And32(Shr32(val, 24), U32(0, 255))),
       AsU8(And32(Shr32(val, 16), U32(0, 255))),
       AsU8(And32(Shr32(val, 8), U32(0, 255))),
       AsU8(And32(val, U32(0, 255))) >>

(***************************************************************************)
(* The integer conversions as calls.                                       *)
(***************************************************************************)
\* u32 values of four sampled bytes, and those with one byte free
IntInputs ==
    {[kind |-> "u32", n |-> U32(b0 * 256 + b1, b2 * 256 + b3)] :
        b0 \in FirstOctets(NumIntOctets), b1 \in FirstOctets(NumIntOctets),
        b2 \in FirstOctets(NumIntOctets), b3 \in FirstOctets(NumIntOctets)}
    \cup {[kind |-> "u32", n |-> U32(c[1] * 256 + c[2], c[3] * 256 + c[4])] :
            c \in Codes}

CodeInputs == {[kind |-> "code", self |-> c] : c \in Codes}

InitInt ==
    /\ input \in IntInputs \cup CodeInputs
    /\ op = "init"
    /\ wire = <<>>
    /\ ret = None

\* let code: FourCC = n.into()
CallFromU32 ==
    /\ op = "init"
    /\ input.kind = "u32"
    /\ op' = "From<u32>"
    /\ ret' = FromU32(input.n)
    /\ UNCHANGED <<input, wire>>

\* let n: u32 = code.into()
CallIntoU32 ==
    /\ op = "init"
    /\ input.kind = "code"
    /\ op' = "Into<u32>"
    /\ ret' = from_u32(input.self)
    /\ UNCHANGED <<input, wire>>

NextInt == CallFromU32 \/ CallIntoU32

SpecInt == InitInt /\ [][NextInt]_vars

(***************************************************************************)
(* C1: the u32 conversions are mutually inverse: a u32 converted to a      *)
(* FourCC and back is the same u32, and a FourCC converted to a u32 and    *)
(* back is the same FourCC.                                                *)
(***************************************************************************)
C1_RoundTrip ==
    /\ op = "From<u32>" => from_u32(ret) = input.n
    /\ op = "Into<u32>" => FromU32(ret) = input.self

\* 0x6d6f6f66 has become "moof", and converts back
C1_Witness ==
    /\ op = "From<u32>"
    /\ input.n = U32(97 * 256 + 255, 65 * 256 + 0)
    /\ ret = <<97, 255, 65, 0>>
    /\ from_u32(ret) = input.n

(***************************************************************************)
(* C2: the integer encoding is big-endian in both directions: the FourCC   *)
(* of n has the octets (n>>24)&0xFF, (n>>16)&0xFF, (n>>8)&0xFF, n&0xFF,    *)
(* and the u32 of [b0,b1,b2,b3] is b0*2^24 + b1*2^16 + b2*2^8 + b3, with   *)
(* no bit lost. In limbs: the high limb is b0*2^8 + b1, the low limb       *)
(* b2*2^8 + b3.                                                            *)
(***************************************************************************)
C2_BigEndian ==
    /\ op = "From<u32>" =>
          ret = << input.n.hi \div 256, input.n.hi % 256,
                   input.n.lo \div 256, input.n.lo % 256 >>
    /\ op = "Into<u32>" =>
          /\ ret.hi = input.self[1] * 256 + input.self[2]
          /\ ret.lo = input.self[3] * 256 + input.self[4]
    \* b"ABCD" is 0x41424344
    /\ (op = "Into<u32>" /\ input.self = <<65, 66, 67, 68>>) =>
          ret = U32(16706, 17220)

\* an octet with its top bit set in every position the sampling allows
C2_Witness ==
    /\ op = "Into<u32>"
    /\ input.self = <<255, 255, 255, 200>>
    /\ ret = U32(65535, 65480)

(***************************************************************************)
(* Constructors from a byte slice and from text.                           *)
(***************************************************************************)
\* buf[i]: the bounds-checked index of a slice, Panic when out of bounds
Index(buf, i) == IF i < Len(buf) THEN Ok(buf[i + 1]) ELSE Panic

\* a mutant of From<&[u8]>: a short slice padded with zero octets
FromSlice_padded(buf) ==
    Ok([i \in 1..4 |-> IF i <= Len(buf) THEN buf[i] ELSE 0])

\* impl From<&[u8]> for FourCC: the four indexings, any of which may panic
FromSlice(buf) ==
    IF \E i \in 0..3 : Index(buf, i) = Panic
    THEN Panic
    ELSE Ok(<<Index(buf, 0).val, Index(buf, 1).val,
              Index(buf, 2).val, Index(buf, 3).val>>)

RECURSIVE as_bytes(_)
\* str::as_bytes: the octets of the characters, in order
as_bytes(s) == IF s = <<>> THEN <<>> ELSE Head(s) \o as_bytes(Tail(s))

RECURSIVE StrLen(_)
\* str::len: the length in octets
StrLen(s) == IF s = <<>> THEN 0 ELSE Len(Head(s)) + StrLen(Tail(s))

\* usize as u32
UsizeAsU32(n) == U32((n \div 65536) % 65536, n % 65536)

\* a mutant of from_str: the length counted in characters
from_str_chars(s) ==
    IF Len(s) # 4 THEN Err(UsizeAsU32(Len(s)))
    ELSE IF Len(as_bytes(s)) # 4 THEN Panic
    ELSE Ok(as_bytes(s))

\* impl FromStr for FourCC (lines 156-166); copy_from_slice panics when the
\* lengths differ, which the length check before it excludes
from_str(s) ==
    IF StrLen(s) # 4 THEN Err(UsizeAsU32(StrLen(s)))
    ELSE IF Len(as_bytes(s)) # 4 THEN Panic
    ELSE Ok(as_bytes(s))

\* the octets a slice is built from
SliceOctets == {117, 0, 255}

SliceInputs ==
    {[kind |-> "slice", buf |-> b] :
        b \in UNION {[1..n -> SliceOctets] : n \in 0..MaxSliceLen}}

\* 'u', U+00E9, U+20AC, U+1F600 in UTF-8
Chars == { <<117>>, <<195, 169>>, <<226, 130, 172>>, <<240, 159, 152, 128>> }

StrInputs ==
    {[kind |-> "str", s |-> t] :
        t \in UNION {[1..n -> Chars] : n \in 0..MaxStrChars}}

InitCtor ==
    /\ input \in SliceInputs \cup StrInputs
    /\ op = "init"
    /\ wire = <<>>
    /\ ret = None

\* FourCC::from(&buf[..])
CallFromSlice ==
    /\ op = "init"
    /\ input.kind = "slice"
    /\ op' = "From<&[u8]>"
    /\ ret' = FromSlice(input.buf)
    /\ UNCHANGED <<input, wire>>

\* FourCC::from_str(s)
CallFromStr ==
    /\ op = "init"
    /\ input.kind = "str"
    /\ op' = "from_str"
    /\ ret' = from_str(input.s)
    /\ UNCHANGED <<input, wire>>

NextCtor == CallFromSlice \/ CallFromStr

SpecCtor == InitCtor /\ [][NextCtor]_vars

RECURSIVE Flatten(_)
\* the octets of a string, gathered from its last character back
Flatten(s) ==
    IF Len(s) = 0 THEN <<>>
    ELSE Flatten(SubSeq(s, 1, Len(s) - 1)) \o s[Len(s)]

(***************************************************************************)
(* C3: FromStr accepts a string if and only if its length in octets is     *)
(* exactly 4; an accepted string gives the FourCC of its four octets in    *)
(* order, a rejected one the error carrying the observed octet length and  *)
(* no FourCC.                                                              *)
(***************************************************************************)
C3_FromStr ==
    op = "from_str" =>
        LET octets == Flatten(input.s)
        IN  /\ ret.tag \in {"Ok", "Err"}
            /\ ret.tag = "Ok" <=> Len(octets) = 4
            /\ ret.tag = "Ok" => ret.val = octets
            /\ ret.tag = "Err" => ret.val = U32(0, Len(octets))

\* two characters, seven octets: rejected with the value 7
C3_Witness ==
    /\ op = "from_str"
    /\ input.s = << <<226, 130, 172>>, <<240, 159, 152, 128>> >>
    /\ ret = Err(U32(0, 7))

(***************************************************************************)
(* C4: the byte-slice constructor, given at least four octets, returns the *)
(* FourCC of the octets at positions 0..3 and ignores the rest; given      *)
(* fewer than four it panics and returns no FourCC, neither a partial nor  *)
(* a padded one.                                                           *)
(***************************************************************************)
C4_FromSlice ==
    op = "From<&[u8]>" =>
        /\ Len(input.buf) >= 4 => ret = Ok(SubSeq(input.buf, 1, 4))
        /\ Len(input.buf) < 4 => ret = Panic

\* a slice of three octets panics
C4_Witness ==
    /\ op = "From<&[u8]>"
    /\ input.buf = <<117, 117, 255>>
    /\ ret = Panic

(***************************************************************************)
(* Rendering.                                                              *)
(***************************************************************************)
\* one lowercase hexadecimal digit, as core::ascii::escape_default writes it
HexDigit(d) == IF d < 10 THEN 48 + d ELSE 87 + d

\* a mutant of escape_default: uppercase hexadecimal digits
escape_default_upper(c) ==
    CASE c = 9 -> <<92, 116>>
      [] c = 13 -> <<92, 114>>
      [] c = 10 -> <<92, 110>>
      [] c = 92 -> <<92, 92>>
      [] c = 39 -> <<92, 39>>
      [] c = 34 -> <<92, 34>>
      [] c \in 32..126 /\ c \notin {92, 39, 34} -> <<c>>
      [] OTHER -> <<92, 120,
                    IF c \div 16 < 10 THEN 48 + (c \div 16)
                                       ELSE 55 + (c \div 16),
                    IF c % 16 < 10 THEN 48 + (c % 16) ELSE 55 + (c % 16)>>

\* core::ascii::escape_default(c), the characters it yields: \t, \r, \n,
\* \\, \', \" as two characters, 0x20..=0x7e as itself, the rest as \xHH
escape_default(c) ==
    CASE c = 9 -> <<92, 116>>
      [] c = 13 -> <<92, 114>>
      [] c = 10 -> <<92, 110>>
      [] c = 92 -> <<92, 92>>
      [] c = 39 -> <<92, 39>>
      [] c = 34 -> <<92, 34>>
      [] c \in 32..126 /\ c \notin {92, 39, 34} -> <<c>>
      [] OTHER -> <<92, 120, HexDigit(c \div 16), HexDigit(c % 16)>>

\* impl fmt::Display for FourCC: the characters written to the formatter
Display(self) ==
    escape_default(self[1]) \o escape_default(self[2])
        \o escape_default(self[3]) \o escape_default(self[4])

RECURSIVE PadAdapter(_, _)
\* core::fmt::builders::PadAdapter: four spaces at the start of every line
PadAdapter(text, on_newline) ==
    IF text = <<>> THEN <<>>
    ELSE (IF on_newline THEN <<32, 32, 32, 32>> ELSE <<>>)
         \o <<Head(text)>> \o PadAdapter(Tail(text), Head(text) = 10)

\* a mutant of Debug: the field given as a string, which Debug quotes
Debug_quoted(self, f) ==
    IF f.alternate
    THEN <<70, 111, 117, 114, 67, 67>> \o <<40, 10>>
         \o PadAdapter(<<34>> \o Display(self) \o <<34>> \o <<44, 10>>, TRUE)
         \o <<41>>
    ELSE <<70, 111, 117, 114, 67, 67>> \o <<40>>
         \o <<34>> \o Display(self) \o <<34>> \o <<41>>

\* impl fmt::Debug for FourCC: debug_tuple("FourCC").field(..).finish(),
\* on one line, or in the alternate ({:#?}) form on three
Debug(self, f) ==
    IF f.alternate
    THEN <<70, 111, 117, 114, 67, 67>> \o <<40, 10>>
         \o PadAdapter(Display(self) \o <<44, 10>>, TRUE)
         \o <<41>>
    ELSE <<70, 111, 117, 114, 67, 67>> \o <<40>> \o Display(self) \o <<41>>

FmtInputs ==
    {[kind |-> "fmt", self |-> c, f |-> [alternate |-> a]] :
        c \in Codes, a \in BOOLEAN}

InitFmt ==
    /\ input \in FmtInputs
    /\ op = "init"
    /\ wire = <<>>
    /\ ret = None

\* format!("{}", code), with whatever flags
CallDisplay ==
    /\ op = "init"
    /\ input.kind = "fmt"
    /\ op' = "Display"
    /\ ret' = Display(input.self)
    /\ UNCHANGED <<input, wire>>

\* format!("{:?}", code) or format!("{:#?}", code)
CallDebug ==
    /\ op = "init"
    /\ input.kind = "fmt"
    /\ op' = "Debug"
    /\ ret' = Debug(input.self, input.f)
    /\ UNCHANGED <<input, wire>>

NextFmt == CallDisplay \/ CallDebug

SpecFmt == InitFmt /\ [][NextFmt]_vars

(***************************************************************************)
(* C5, as claimed: the display rendering is the concatenation, in index    *)
(* order, of the rendering of each octet: an octet in 0x20..0x7E other     *)
(* than backslash and double quote as itself, backslash as \\, double      *)
(* quote as \", 0x09, 0x0A, 0x0D as \t, \n, \r, every other octet as \xHH  *)
(* with two lowercase hexadecimal digits.                                  *)
(***************************************************************************)
C5_AsClaimed ==
    op = "Display" =>
        LET hex == <<48, 49, 50, 51, 52, 53, 54, 55, 56, 57,
                     97, 98, 99, 100, 101, 102>>
            render(b) ==
                IF b = 92 THEN <<92, 92>>
                ELSE IF b = 34 THEN <<92, 34>>
                ELSE IF b = 9 THEN <<92, 116>>
                ELSE IF b = 10 THEN <<92, 110>>
                ELSE IF b = 13 THEN <<92, 114>>
                ELSE IF b >= 32 /\ b <= 126 THEN <<b>>
                ELSE <<92, 120, hex[(b \div 16) + 1], hex[(b % 16) + 1]>>
        IN  ret = render(input.self[1]) \o render(input.self[2])
                    \o render(input.self[3]) \o render(input.self[4])

(***************************************************************************)
(* C5, amended: as claimed, but the single quote (0x27) is escaped too: it *)
(* renders as the two characters backslash, single quote.                  *)
(***************************************************************************)
C5_Display ==
    op = "Display" =>
        LET hex == <<48, 49, 50, 51, 52, 53, 54, 55, 56, 57,
                     97, 98, 99, 100, 101, 102>>
            render(b) ==
                IF b = 92 THEN <<92, 92>>
                ELSE IF b = 34 THEN <<92, 34>>
                ELSE IF b = 39 THEN <<92, 39>>
                ELSE IF b = 9 THEN <<92, 116>>
                ELSE IF b = 10 THEN <<92, 110>>
                ELSE IF b = 13 THEN <<92, 114>>
                ELSE IF b >= 32 /\ b <= 126 THEN <<b>>
                ELSE <<92, 120, hex[(b \div 16) + 1], hex[(b % 16) + 1]>>
        IN  ret = render(input.self[1]) \o render(input.self[2])
                    \o render(input.self[3]) \o render(input.self[4])

\* b"A'\xffA" displays as A\'\xffA
C5_Witness ==
    /\ op = "Display"
    /\ input.self = <<65, 39, 255, 65>>
    /\ ret = <<65, 92, 39, 92, 120, 102, 102, 65>>

Utf8(c) == IF c < 128 THEN <<c>> ELSE <<192 + (c \div 64), 128 + (c % 64)>>

RECURSIVE Utf8All(_)
Utf8All(text) ==
    IF text = <<>> THEN <<>> ELSE Utf8(Head(text)) \o Utf8All(Tail(text))

\* ToString::to_string: the String, as octets, that Display writes
to_string(self) == Utf8All(Display(self))

\* Ord for u8 and for usize
NumCmp(x, y) == IF x < y THEN "Less" ELSE IF x > y THEN "Greater" ELSE "Equal"

\* Ord for str: the octets compared over the common length (memcmp), then
\* the lengths
StrCmp(l, r) ==
    LET n == Min(Len(l), Len(r))
        diff == {i \in 1..n : l[i] # r[i]}
    IN  IF diff # {}
        THEN LET i == CHOOSE j \in diff : \A k \in diff : j <= k
             IN  NumCmp(l[i], r[i])
        ELSE NumCmp(Len(l), Len(r))

\* a mutant of cmp: the octets compared, not their rendering
cmp_octets(self, other) == StrCmp(self, other)

\* a mutant of cmp: the operands swapped
cmp_swapped(self, other) == StrCmp(to_string(other), to_string(self))

\* a mutant of cmp: only the first four characters of the renderings compared
cmp_truncated(self, other) ==
    StrCmp(SubSeq(to_string(self), 1, 4), SubSeq(to_string(other), 1, 4))

\* impl Ord for FourCC
cmp(self, other) == StrCmp(to_string(self), to_string(other))

\* impl PartialOrd for FourCC: String::partial_cmp is Some of str's cmp
partial_cmp(self, other) == Ok(StrCmp(to_string(self), to_string(other)))

\* #[derive(PartialEq, Eq)]: the arrays equal element by element
eq(self, other) == \A i \in 1..4 : self[i] = other[i]

OrdCodes == [1..4 -> FirstOctets(NumOrdOctets)]

OrdInputs ==
    {[kind |-> "pair", self |-> a, other |-> b] :
        a \in OrdCodes, b \in OrdCodes}

InitOrd ==
    /\ input \in OrdInputs
    /\ op = "init"
    /\ wire = <<>>
    /\ ret = None

\* self.cmp(&other)
CallCmp ==
    /\ op = "init"
    /\ input.kind \in {"pair", "triple"}
    /\ op' = "cmp"
    /\ ret' = cmp(input.self, input.other)
    /\ UNCHANGED <<input, wire>>

\* self.partial_cmp(&other)
CallPartialCmp ==
    /\ op = "init"
    /\ input.kind \in {"pair", "triple"}
    /\ op' = "partial_cmp"
    /\ ret' = partial_cmp(input.self, input.other)
    /\ UNCHANGED <<input, wire>>

\* self == other
CallEq ==
    /\ op = "init"
    /\ input.kind \in {"pair", "triple"}
    /\ op' = "eq"
    /\ ret' = eq(input.self, input.other)
    /\ UNCHANGED <<input, wire>>

NextOrd == CallCmp \/ CallPartialCmp \/ CallEq

SpecOrd == InitOrd /\ [][NextOrd]_vars

\* operands that differ in their first and last octets, with a third operand
TriCodes ==
    {<<x, 117, 105, y>> :
        x \in FirstOctets(NumTriOctets), y \in FirstOctets(NumTriOctets)}

TriInputs ==
    {[kind |-> "triple", self |-> a, other |-> b, third |-> c] :
        a \in TriCodes, b \in TriCodes, c \in TriCodes}

InitTri ==
    /\ input \in TriInputs
    /\ op = "init"
    /\ wire = <<>>
    /\ ret = None

SpecTri == InitTri /\ [][NextOrd]_vars

(***************************************************************************)
(* C6: the ordering is a total order consistent with equality: exactly one *)
(* of A<B, A==B, A>B holds; cmp(A,B) is Equal if and only if the octets of *)
(* A and B are pairwise equal; < is transitive; partial_cmp(A,B) is        *)
(* Some(cmp(A,B)).                                                         *)
(***************************************************************************)
C6_TotalOrder ==
    LET a == input.self
        b == input.other
        c == input.third
    IN  /\ op = "cmp" =>
              /\ ret \in {"Less", "Equal", "Greater"}
              /\ ret = "Equal" <=> eq(a, b)
              /\ ret = "Equal" <=> a = b
              /\ ret = "Less" <=> cmp(b, a) = "Greater"
              /\ (ret = "Less" /\ cmp(b, c) = "Less") => cmp(a, c) = "Less"
        /\ op = "partial_cmp" => ret = Ok(cmp(a, b))
        /\ op = "eq" => (ret <=> cmp(a, b) = "Equal")

\* b"\xffuiA" < b"auiA" < b"aui\x00", and so b"\xffuiA" < b"aui\x00"
C6_Witness ==
    /\ op = "cmp"
    /\ input.self = <<255, 117, 105, 65>>
    /\ input.other = <<97, 117, 105, 65>>
    /\ input.third = <<97, 117, 105, 0>>
    /\ ret = "Less"
    /\ cmp(input.other, input.third) = "Less"

RECURSIVE LexLess(_, _)
\* s before t in lexicographic order of code points, a proper prefix first
LexLess(s, t) ==
    IF t = <<>> THEN FALSE
    ELSE IF s = <<>> THEN TRUE
    ELSE IF Head(s) < Head(t) THEN TRUE
    ELSE IF Head(s) > Head(t) THEN FALSE
    ELSE LexLess(Tail(s), Tail(t))

(***************************************************************************)
(* C7: the ordering agrees with the display rendering: A < B if and only   *)
(* if the display string of A is lexicographically less, by code points,   *)
(* than the display string of B.                                           *)
(***************************************************************************)
C7_DisplayOrder ==
    /\ op = "cmp" =>
          (ret = "Less" <=>
              LexLess(Display(input.self), Display(input.other)))
    /\ op = "partial_cmp" =>
          (ret = Ok("Less") <=>
              LexLess(Display(input.self), Display(input.other)))

\* b"\xffAAA" < b"aAAA": the rendering \xffAAA is before aAAA
C7_Witness ==
    /\ op = "cmp"
    /\ input.self = <<255, 65, 65, 65>>
    /\ input.other = <<97, 65, 65, 65>>
    /\ ret = "Less"

\* Ord for u32
U32Cmp(m, n) == IF m.hi # n.hi THEN NumCmp(m.hi, n.hi) ELSE NumCmp(m.lo, n.lo)

(***************************************************************************)
(* C10: for FourCCs A and B all of whose octets render as the single       *)
(* character itself, cmp(A,B) is the lexicographic comparison of the octet *)
(* arrays, which is the numeric comparison of the big-endian u32 values;   *)
(* outside that set the orderings can disagree: b"aAAA" has the smaller    *)
(* u32 and is the greater of b"aAAA" and b"\xffAAA".                       *)
(***************************************************************************)
C10_PlainOrder ==
    LET a == input.self
        b == input.other
        plain(x) == \A i \in 1..4 : escape_default(x[i]) = <<x[i]>>
        diff == {i \in 1..4 : a[i] # b[i]}
        first == CHOOSE i \in diff : \A k \in diff : i <= k
        octets == IF diff = {} THEN "Equal"
                  ELSE IF a[first] < b[first] THEN "Less" ELSE "Greater"
    IN  op = "cmp" =>
          /\ (plain(a) /\ plain(b)) =>
                /\ ret = octets
                /\ ret = U32Cmp(from_u32(a), from_u32(b))
          /\ (a = <<97, 65, 65, 65>> /\ b = <<255, 65, 65, 65>>) =>
                /\ U32Cmp(from_u32(a), from_u32(b)) = "Less"
                /\ ret = "Greater"

\* b"AaAa" < b"AaaA" in all three orders
C10_Witness ==
    /\ op = "cmp"
    /\ input.self = <<65, 97, 65, 97>>
    /\ input.other = <<65, 97, 97, 65>>
    /\ ret = "Less"
    /\ U32Cmp(from_u32(input.self), from_u32(input.other)) = "Less"

(***************************************************************************)
(* The serde adapter.                                                      *)
(***************************************************************************)
\* Serializer::collect_str(self): the text scalar of the Display rendering,
\* one character for each character written
Serialize(self) == [i \in 1..Len(Display(self)) |-> Utf8(Display(self)[i])]

\* the feature-gated impl FromStr for FourCC (lines 249-255):
\* Ok(s.as_bytes().into()), with no check of the length
from_str_serde(s) == FromSlice(as_bytes(s))

\* the impls of FromStr for FourCC a build with the serde feature holds:
\* the one of line 156 and the one of line 250
FromStrImpls == {"FromStr@156", "FromStr@250"}

\* FromStrVisitor::visit_str: s.parse().map_err(Error::custom)
visit_str(s, impl) ==
    LET parsed == IF impl = "FromStr@156" THEN from_str(s)
                  ELSE from_str_serde(s)
    IN  IF parsed.tag = "Err" THEN Err([custom |-> parsed.val]) ELSE parsed

InitSerde ==
    /\ input \in CodeInputs \cup StrInputs
    /\ op = "init"
    /\ wire = <<>>
    /\ ret = None

\* code.serialize(serializer)
CallSerialize ==
    /\ op = "init"
    /\ input.kind = "code"
    /\ op' = "serialize"
    /\ wire' = Serialize(input.self)
    /\ ret' = Ok(wire')
    /\ UNCHANGED input

\* FourCC::deserialize(deserializer), of the text just serialized or of a
\* text from elsewhere; s.parse() goes to an impl of FromStr
CallDeserialize ==
    /\ \/ op = "serialize" /\ UNCHANGED wire
       \/ op = "init" /\ input.kind = "str" /\ wire' = input.s
    /\ \E impl \in FromStrImpls :
          ret' = [parse |-> impl, val |-> visit_str(wire', impl)]
    /\ op' = "deserialize"
    /\ UNCHANGED input

NextSerde == CallSerialize \/ CallDeserialize

SpecSerde == InitSerde /\ [][NextSerde]_vars

(***************************************************************************)
(* C8: a FourCC serializes to a text scalar equal to its display           *)
(* rendering; serialize-then-deserialize returns the original FourCC if    *)
(* and only if none of its octets requires escaping; when an octet         *)
(* requires escaping the serialized text is longer than four octets and    *)
(* deserializing it is rejected with a value error, yielding no FourCC.    *)
(***************************************************************************)
C8_RoundTrip ==
    LET escaped == \E i \in 1..4 :
                      escape_default(input.self[i]) # <<input.self[i]>>
    IN  /\ op = "serialize" => Flatten(wire) = Display(input.self)
        /\ (op = "deserialize" /\ input.kind = "code") =>
              /\ (ret.val.tag = "Ok" /\ ret.val.val = input.self) <=> ~escaped
              /\ escaped => /\ Len(Flatten(wire)) > 4
                            /\ ret.val.tag = "Err"

(***************************************************************************)
(* The whole crate: every call on every input.                             *)
(***************************************************************************)
Init == InitInt \/ InitCtor \/ InitFmt \/ InitOrd \/ InitTri \/ InitSerde

Next == NextInt \/ NextCtor \/ NextFmt \/ NextOrd \/ NextSerde

Spec == Init /\ [][Next]_vars

====
